---- MODULE Spec2Model ----
(***************************************************************************)
(* Radio Jamm V.2: the metronome engine (MetronomeSound), the component    *)
(* that drives it (MetronomeControls, tap tempo included) and the tuner:   *)
(* its microphone session, its detectPitch cycle and updateTuningInfo.     *)
(*                                                                         *)
(* JavaScript runs every handler to completion, so each call or timer      *)
(* callback is one atomic action.  Time is kept relative: a pending timer  *)
(* carries the milliseconds that remain until it is due, and Advance lets  *)
(* time pass up to the earliest due timer.                                 *)
(***************************************************************************)
EXTENDS Integers, Sequences, FiniteSets, TLC

\* ------------------------------------------------------------------ bounds
MaxBeat == 9        \* timer ticks stop being explored at this beatCount
MaxBpmCalls == 2    \* setBPM calls explored between two ticks of a running engine
MaxTimerId == 4     \* pool of timer handles (a handle is reused once unreferenced)
TimeStep == 250     \* granularity (ms) of time passing between events
HoldStep == 1000    \* granularity (ms) of time passing between tuner cycles
MaxTapCount == 4    \* taps explored in one run
MaxTapBeat == 1     \* ticks explored while tap tempo is exercised

\* ------------------------------------------------- constants of the program
MinBPM == 40
MaxBPM == 300
DefaultBPM == 120
BeatsPerMeasure == 4
MsPerMinute == 60000
DownbeatFreq == 1780
BeatFreq == 1600
ColorSwitchBeats == 8
LockMs == 2000
LockCents == 5
RangeCents == 50
MaxHistoryLength == 5
ClarityThreshold == 80   \* 0.8, in hundredths
MinPitch == 5000         \* 50 Hz, in hundredths of a hertz
MaxPitch == 200000       \* 2000 Hz, in hundredths of a hertz
MaxTaps == 4
TapClearMs == 2000

\* --------------------------------------------- arithmetic of the cents model
Pow2Scale == 50000  \* fixed-point scale of Pow2Table
MaxCents == 60      \* cents computed exactly up to this magnitude

\* arguments handed to setBPM: below, at and above the clamp limits
BpmArgs == {-1, 39, 40, 120, 300, 301}

VARIABLES
  isPlaying, timeoutId, bpm, beatCount, currentBeat,  \* fields of MetronomeSound
  timers,            \* the window's active single-shot timers
  isGreenDownbeat,   \* MetronomeControls state flipped by the onBeat callback
  bpmState, isPlayingState,  \* MetronomeControls useState values
  render,            \* the values the handlers' closures captured at the last render
  lastTick,          \* what the last playBeat handed to onBeat and to the synthesizer
  sinceTick,         \* ms elapsed since the last playBeat (up to MaxInterval)
  bpmCalls,          \* setBPM calls on the running engine since the last playBeat
  stopped,           \* stop() has returned and start() was not called since
  progressions,      \* Home state: the length of each displayed progression
  selectedChord,     \* Home state: the selected chord, or NoChord for null
  autoChordIndex,    \* Home state: the automation's position
  isAutomationActive, \* Home state set by handleMetronomeToggle
  lastOp,            \* the operation that produced the current state
  currentNote, cents,        \* Tuner useState values shown on the display
  guitarTuned,               \* the tuned flag of each entry of guitarStrings
  lastNoteRef,               \* lastNoteRef.current
  noteHoldAge,               \* Date.now() - noteHoldTimeRef.current, up to LockMs
  closest,                   \* index of the string the last update matched
  published,                 \* the last update passed the +/-50 cents test
  tunerIn,                   \* the frequency handed to updateTuningInfo
  pitchHistory,              \* detectPitch's pitchHistory array
  avgPitch,                  \* the average the last accepting cycle computed
  frame,                     \* the estimate of the last cycle, its outcome and
                             \* the string the last published reading matched
  stretchName, stretchAge,   \* the run of in-tune readings of one name, and
                             \* the ms since it began (up to LockMs)
  pc,                        \* where startTuning stands
  stream,                    \* the MediaStream: "none", "live" or "stopped"
  audioContext,              \* the AudioContext: "none", "open" or "closed"
  animationFrameId,          \* a detectPitch cycle is requested
  isListening, error,        \* Tuner useState values
  errorSets,                 \* calls of setError with a message
  attempts,                  \* calls of getUserMedia
  failure,                   \* what startTuning's catch received
  unmounted,                 \* the effect's cleanup has run
  tapTimes,                  \* MetronomeControls tapTimes, as the age of each tap
  pruneTimers,               \* ms until each pending pruning callback is due
  tapOp                      \* what the last handleTapTempo computed

engineVars == <<isPlaying, timeoutId, bpm, beatCount, currentBeat, timers,
                isGreenDownbeat, lastTick, sinceTick, bpmCalls, stopped,
                progressions, selectedChord, autoChordIndex, isAutomationActive>>
uiVars == <<bpmState, isPlayingState, render>>
cycleVars == <<pitchHistory, avgPitch, frame, stretchName, stretchAge>>
micVars == <<pc, stream, audioContext, animationFrameId, isListening, error,
             errorSets, attempts, failure, unmounted>>
tapVars == <<tapTimes, pruneTimers, tapOp>>
tunerVars == <<currentNote, cents, guitarTuned, lastNoteRef, noteHoldAge,
               closest, published, tunerIn, cycleVars, micVars>>
vars == <<engineVars, uiVars, lastOp, tunerVars, tapVars>>

Min(a, b) == IF a < b THEN a ELSE b
Max(a, b) == IF a > b THEN a ELSE b

\* The engine, the timer list and what its callbacks touch, as one value the
\* operators below transform; `threw` marks an exception propagating out of
\* the call, `ticked` that playBeat ran in it and `fired` the callback that ran.
Engine ==
  [isPlaying |-> isPlaying, timeoutId |-> timeoutId, bpm |-> bpm,
   beatCount |-> beatCount, currentBeat |-> currentBeat, timers |-> timers,
   isGreenDownbeat |-> isGreenDownbeat, lastTick |-> lastTick,
   sinceTick |-> sinceTick, bpmCalls |-> bpmCalls, stopped |-> stopped,
   progressions |-> progressions, selectedChord |-> selectedChord,
   autoChordIndex |-> autoChordIndex, isAutomationActive |-> isAutomationActive,
   threw |-> FALSE, ticked |-> FALSE, fired |-> "none"]

NoTick == [beat |-> -1, count |-> -1, baseFreq |-> 0]

\* Home's selectedChord is null
NoChord == [progressionIndex |-> -1, chordIndex |-> -1]

\* 60000 / this.bpm, as the delay setTimeout uses (whole milliseconds)
Interval(b) == MsPerMinute \div b

\* a clamp that forgets the lower limit
Clamp_UpperOnly(n) == Min(n, MaxBPM)

\* the longest interval between ticks; sinceTick is not counted beyond it
MaxInterval == Interval(MinBPM)

\* Math.min(Math.max(newBPM, 40), 300)
Clamp(n) == Min(Max(n, MinBPM), MaxBPM)

\* window.setTimeout returns a handle no pending timer and no stored handle uses
UsedIds(e) == {t.id : t \in e.timers} \cup {e.timeoutId}
FreshId(e) ==
  CHOOSE i \in 1..MaxTimerId :
    /\ i \notin UsedIds(e)
    /\ \A j \in 1..MaxTimerId : j \notin UsedIds(e) => i <= j
HasFreshId(e) == \E i \in 1..MaxTimerId : i \notin UsedIds(e)

setTimeout(e, kind, delay) ==
  [e EXCEPT !.timeoutId = FreshId(e),
            !.timers = @ \cup {[id |-> FreshId(e), kind |-> kind, remaining |-> delay]}]

clearTimeout(ts, id) == {t \in ts : t.id # id}

\* progressions[i] || [] of Home, as the length of that progression
progressionLength(e, i) ==
  IF i + 1 \in 1..Len(e.progressions) THEN e.progressions[i + 1] ELSE 0

\* an automation that moves on at every measure
handleMetronomeDownbeat_EveryMeasure(e, bc) ==
  IF ~e.isAutomationActive \/ e.selectedChord = NoChord THEN e
  ELSE IF bc > 0 /\ bc % BeatsPerMeasure = 0
       THEN LET n == progressionLength(e, e.selectedChord.progressionIndex)
                nextIndex == (e.autoChordIndex + 1) % n
            IN IF n = 0 THEN e
               ELSE [e EXCEPT !.autoChordIndex = nextIndex,
                              !.selectedChord.chordIndex = nextIndex]
       ELSE e

\* Home.handleMetronomeDownbeat, the onDownbeat prop of MetronomeControls
handleMetronomeDownbeat(e, bc) ==
  IF ~e.isAutomationActive \/ e.selectedChord = NoChord THEN e
  ELSE IF bc > 0 /\ bc % ColorSwitchBeats = 0
       THEN LET n == progressionLength(e, e.selectedChord.progressionIndex)
                nextIndex == (e.autoChordIndex + 1) % n
            IN IF n = 0 THEN e
               ELSE [e EXCEPT !.autoChordIndex = nextIndex,
                              !.selectedChord.chordIndex = nextIndex]
       ELSE e

\* Home.handleMetronomeToggle, the onToggle prop of MetronomeControls
handleMetronomeToggle(e, newIsPlaying) ==
  LET e1 == [e EXCEPT !.isAutomationActive = newIsPlaying] IN
  IF newIsPlaying /\ e.selectedChord # NoChord
  THEN [e1 EXCEPT !.selectedChord.chordIndex = 0, !.autoChordIndex = 0]
  ELSE e1

\* an onBeat that switches the colour at every downbeat after the first
onBeat_EveryDownbeat(e, beat) ==
  LET bc == e.beatCount
      e1 == [e EXCEPT !.isGreenDownbeat = IF beat = 0 /\ bc > 0 THEN ~@ ELSE @,
             !.lastTick = [beat |-> beat, count |-> bc, baseFreq |-> 0]]
  IN handleMetronomeDownbeat(e1, bc)

\* the onBeat callback MetronomeControls installs
onBeat(e, beat) ==
  LET bc == e.beatCount
      e1 == [e EXCEPT !.isGreenDownbeat =
               IF beat = 0 /\ bc > 0 /\ bc % ColorSwitchBeats = 0 THEN ~@ ELSE @,
             !.lastTick = [beat |-> beat, count |-> bc, baseFreq |-> 0]]
  IN handleMetronomeDownbeat(e1, bc)

\* a playBeat that picks the timbre from the currentBeat it found
playBeat_StaleTimbre(e, fail) ==
  LET bc == e.beatCount + 1
      beatInMeasure == bc % BeatsPerMeasure
      e1 == onBeat([e EXCEPT !.beatCount = bc, !.currentBeat = beatInMeasure],
                   beatInMeasure)
      baseFreq == IF e.currentBeat = 0 THEN DownbeatFreq ELSE BeatFreq
  IN [e1 EXCEPT !.lastTick.baseFreq = IF fail THEN 0 ELSE baseFreq,
                !.sinceTick = 0, !.bpmCalls = 0, !.threw = fail,
                !.ticked = TRUE]

\* MetronomeSound.playBeat; fail: the Web Audio calls of the synthesis throw
playBeat(e, fail) ==
  LET bc == e.beatCount + 1
      beatInMeasure == bc % BeatsPerMeasure
      e1 == onBeat([e EXCEPT !.beatCount = bc, !.currentBeat = beatInMeasure],
                   beatInMeasure)
      baseFreq == IF beatInMeasure = 0 THEN DownbeatFreq ELSE BeatFreq
  IN [e1 EXCEPT !.lastTick.baseFreq = IF fail THEN 0 ELSE baseFreq,
                !.sinceTick = 0, !.bpmCalls = 0, !.threw = fail,
                !.ticked = TRUE]

\* MetronomeSound.scheduleNextBeat
scheduleNextBeat(e) ==
  IF ~e.isPlaying THEN e ELSE setTimeout(e, "sched", Interval(e.bpm))

\* a start that keeps the beatCount of the session before
start_NoReset(e, fail) ==
  IF e.isPlaying THEN [e EXCEPT !.stopped = FALSE]
  ELSE LET e1 == playBeat([e EXCEPT !.isPlaying = TRUE, !.currentBeat = 0,
                                    !.stopped = FALSE], fail)
       IN IF e1.threw THEN e1 ELSE scheduleNextBeat(e1)

\* a start that restarts a running metronome
start_Restart(e, fail) ==
  LET e1 == playBeat([e EXCEPT !.isPlaying = TRUE, !.beatCount = -1,
                               !.currentBeat = 0, !.stopped = FALSE], fail)
  IN IF e1.threw THEN e1 ELSE scheduleNextBeat(e1)

\* MetronomeSound.start
start(e, fail) ==
  IF e.isPlaying THEN [e EXCEPT !.stopped = FALSE]
  ELSE LET e1 == playBeat([e EXCEPT !.isPlaying = TRUE, !.beatCount = -1,
                                    !.currentBeat = 0, !.stopped = FALSE], fail)
       IN IF e1.threw THEN e1 ELSE scheduleNextBeat(e1)

\* a stop that only clears the (never set) intervalId
stop_IntervalOnly(e) == [e EXCEPT !.stopped = TRUE]

\* MetronomeSound.stop (intervalId is never set by this class and stays null)
stop(e) ==
  [e EXCEPT !.isPlaying = FALSE,
            !.timers = IF e.timeoutId # 0 THEN clearTimeout(@, e.timeoutId) ELSE @,
            !.timeoutId = 0,
            !.stopped = TRUE]

\* a setBPM that arms the new timer without cancelling the pending one
setBPM_NoClear(e, newBPM) ==
  LET e1 == [e EXCEPT !.bpm = Clamp(newBPM)] IN
  IF e1.isPlaying /\ e1.timeoutId # 0
  THEN setTimeout(e1, "bpm", Interval(e1.bpm))
  ELSE e1

\* a setBPM that cancels the pending timer and arms none
setBPM_NoRearm(e, newBPM) ==
  LET e1 == [e EXCEPT !.bpm = Clamp(newBPM)] IN
  IF e1.isPlaying /\ e1.timeoutId # 0
  THEN [e1 EXCEPT !.timers = clearTimeout(@, e1.timeoutId)]
  ELSE e1

\* a setBPM that computes the interval before it stores the new bpm
setBPM_StaleInterval(e, newBPM) ==
  LET e1 == [e EXCEPT !.bpm = Clamp(newBPM)] IN
  IF e1.isPlaying /\ e1.timeoutId # 0
  THEN setTimeout([e1 EXCEPT !.timers = clearTimeout(@, e1.timeoutId)],
                  "bpm", Interval(e.bpm))
  ELSE e1

\* MetronomeSound.setBPM
setBPM(e, newBPM) ==
  LET e1 == [e EXCEPT !.bpm = Clamp(newBPM)] IN
  IF e1.isPlaying /\ e1.timeoutId # 0
  THEN setTimeout([e1 EXCEPT !.timers = clearTimeout(@, e1.timeoutId)],
                  "bpm", Interval(e1.bpm))
  ELSE e1

\* a callback in which the timer setBPM armed also advances beatCount
timerCallback_DoubleCount(e, t, fail) ==
  IF ~e.isPlaying THEN [e EXCEPT !.fired = t.kind]
  ELSE LET e0 == IF t.kind = "bpm"
                 THEN [e EXCEPT !.currentBeat = (@ + 1) % BeatsPerMeasure,
                                !.beatCount = @ + 1, !.fired = t.kind]
                 ELSE [e EXCEPT !.fired = t.kind]
           e1 == playBeat(e0, fail)
       IN IF e1.threw THEN e1 ELSE scheduleNextBeat(e1)

\* the callback of a fired timer t: the one scheduleNextBeat arms ("sched") or
\* the one setBPM arms ("bpm")
timerCallback(e, t, fail) ==
  IF ~e.isPlaying THEN [e EXCEPT !.fired = t.kind]
  ELSE LET e0 == IF t.kind = "bpm"
                 THEN [e EXCEPT !.currentBeat = (@ + 1) % BeatsPerMeasure,
                                !.fired = t.kind]
                 ELSE [e EXCEPT !.fired = t.kind]
           e1 == playBeat(e0, fail)
       IN IF e1.threw THEN e1 ELSE scheduleNextBeat(e1)

\* ------------------------------------------------------------------ actions
Commit(e) ==
  /\ isPlaying' = e.isPlaying
  /\ timeoutId' = e.timeoutId
  /\ bpm' = e.bpm
  /\ beatCount' = e.beatCount
  /\ currentBeat' = e.currentBeat
  /\ timers' = e.timers
  /\ isGreenDownbeat' = e.isGreenDownbeat
  /\ lastTick' = e.lastTick
  /\ sinceTick' = e.sinceTick
  /\ bpmCalls' = e.bpmCalls
  /\ stopped' = e.stopped
  /\ progressions' = e.progressions
  /\ selectedChord' = e.selectedChord
  /\ autoChordIndex' = e.autoChordIndex
  /\ isAutomationActive' = e.isAutomationActive

Op(name, arg, e) ==
  [op |-> name, arg |-> arg, ticked |-> e.ticked, threw |-> e.threw,
   fired |-> e.fired, preBeat |-> beatCount, prePlaying |-> isPlaying,
   repeat |-> (name = lastOp.op /\ arg = lastOp.arg)]

NoInput == [string |-> 0, half |-> 0, freq |-> 0]

\* no detectPitch cycle has run
NoFrame == [pitch |-> 0, clarity |-> 0, outcome |-> "none", prev |-> "none",
            matched |-> 0]

\* handleTapTempo has not run
NoTap == [count |-> 0, taps |-> 0, calculated |-> 0, accepted |-> FALSE, span |-> 0, gap |-> -1]

\* the Tuner component after its first render, before its effect runs
TunerInit ==
  /\ currentNote = ""
  /\ cents = 0
  /\ guitarTuned = [i \in 1..6 |-> FALSE]
  /\ lastNoteRef = ""
  /\ noteHoldAge = LockMs
  /\ closest = 0
  /\ published = FALSE
  /\ pitchHistory = <<>>
  /\ avgPitch = 0
  /\ frame = NoFrame
  /\ stretchName = ""
  /\ stretchAge = 0
  /\ pc = "mounted"
  /\ stream = "none"
  /\ audioContext = "none"
  /\ animationFrameId = FALSE
  /\ isListening = FALSE
  /\ error = ""
  /\ errorSets = 0
  /\ attempts = 0
  /\ failure = "none"
  /\ unmounted = FALSE

MetronomeInit ==
  /\ isPlaying = FALSE
  /\ timeoutId = 0
  /\ bpm = DefaultBPM
  /\ beatCount = 0
  /\ currentBeat = 0
  /\ timers = {}
  /\ isGreenDownbeat = FALSE
  /\ bpmState = DefaultBPM
  /\ isPlayingState = FALSE
  /\ render = [bpm |-> DefaultBPM, isPlaying |-> FALSE]
  /\ lastTick = NoTick
  /\ sinceTick = 0
  /\ bpmCalls = 0
  /\ stopped = FALSE
  /\ progressions = <<>>
  /\ selectedChord = NoChord
  /\ autoChordIndex = 0
  /\ isAutomationActive = FALSE
  /\ tapTimes = <<>>
  /\ pruneTimers = <<>>
  /\ tapOp = NoTap
  /\ lastOp = [op |-> "init", arg |-> 0, ticked |-> FALSE, threw |-> FALSE,
               fired |-> "none", preBeat |-> 0, prePlaying |-> FALSE,
               repeat |-> FALSE]

Init == MetronomeInit /\ TunerInit /\ tunerIn = NoInput

Start(fail) ==
  /\ HasFreshId(Engine)
  /\ LET e == start(Engine, fail) IN Commit(e) /\ lastOp' = Op("start", 0, e)
  /\ UNCHANGED <<uiVars, tunerVars, tapVars>>

Stop ==
  /\ LET e == stop(Engine) IN Commit(e) /\ lastOp' = Op("stop", 0, e)
  /\ UNCHANGED <<uiVars, tunerVars, tapVars>>

SetBPM(n) ==
  /\ isPlaying => bpmCalls < MaxBpmCalls
  /\ HasFreshId(Engine)
  /\ LET e0 == setBPM(Engine, n)
         e == [e0 EXCEPT !.bpmCalls = IF isPlaying THEN @ + 1 ELSE @]
     IN Commit(e) /\ lastOp' = Op("setBPM", n, e)
  /\ UNCHANGED <<uiVars, tunerVars, tapVars>>

TimerFireBelow(maxBeat, fail) ==
  /\ beatCount < maxBeat
  /\ \E t \in timers :
       /\ t.remaining = 0
       /\ LET e == timerCallback([Engine EXCEPT !.timers = @ \ {t}], t, fail)
          IN Commit(e) /\ lastOp' = Op("timer", 0, e)
  /\ UNCHANGED <<uiVars, tunerVars, tapVars>>

TimerFire(fail) == TimerFireBelow(MaxBeat, fail)

MinRemaining == CHOOSE r \in {t.remaining : t \in timers} :
                  \A t \in timers : r <= t.remaining

AdvanceBy(d) ==
  /\ timers # {}
  /\ d > 0
  /\ d <= MinRemaining
  /\ LET e == [Engine EXCEPT
                 !.timers = {[t EXCEPT !.remaining = @ - d] : t \in timers},
                 !.sinceTick = Min(@ + d, MaxInterval)]
     IN Commit(e) /\ lastOp' = Op("advance", d, e)
  /\ UNCHANGED <<uiVars, tunerVars, tapVars>>

\* time passes by a step, or up to the instant the earliest timer is due
Advance == timers # {} /\ \E d \in {TimeStep, MinRemaining} : AdvanceBy(d)

\* time passes up to the instant the earliest timer is due
AdvanceToDue == timers # {} /\ AdvanceBy(MinRemaining)

Next ==
  \/ Start(FALSE)
  \/ Stop
  \/ \E n \in BpmArgs : SetBPM(n)
  \/ TimerFire(FALSE)
  \/ Advance

Spec == Init /\ [][Next]_vars

\* The engine when the Web Audio calls of playBeat may throw.
FaultNext ==
  \/ \E f \in BOOLEAN : Start(f)
  \/ Stop
  \/ \E n \in BpmArgs : SetBPM(n)
  \/ \E f \in BOOLEAN : TimerFire(f)
  \/ Advance

FaultSpec == Init /\ [][FaultNext]_vars

\* The engine under a host in which time passes and a due timer runs,
\* explored over its first beats and over two tempi.
MaxLiveBeat == 3
LiveBpmArgs == {120, 300}

LiveTimerFire == TimerFire(FALSE) /\ beatCount' <= MaxLiveBeat

LiveNext ==
  \/ Start(FALSE)
  \/ Stop
  \/ \E n \in LiveBpmArgs : SetBPM(n)
  \/ LiveTimerFire
  \/ Advance

LiveSpec == Init /\ [][LiveNext]_vars /\ WF_vars(Advance) /\ WF_vars(LiveTimerFire)

\* --------------------------------------------- MetronomeControls handlers
\* Handlers read the bpm and isPlaying their closure captured at the last
\* render, write the state through the setters and call the engine; Render
\* commits the state to the closures.
MaxNudge == 1                      \* +/- clicks explored around a slider value
SliderValues == {40, 120, 300}     \* values the range input delivers

NearSlider(b) == \E v \in SliderValues : b - v <= MaxNudge /\ v - b <= MaxNudge

UiOp(name, arg, e) == Op(name, arg, e)

TogglePlay(fail) ==
  /\ HasFreshId(Engine)
  /\ isPlaying => bpmCalls < MaxBpmCalls
  /\ IF render.isPlaying
     THEN LET e == handleMetronomeToggle(stop(Engine), FALSE)
          IN /\ Commit(e) /\ lastOp' = UiOp("togglePlay", 0, e)
             /\ isPlayingState' = FALSE
     ELSE LET e1 == [Engine EXCEPT !.beatCount = -1, !.isGreenDownbeat = FALSE]
              e2 == setBPM(e1, render.bpm)
              e4 == start([e2 EXCEPT !.bpmCalls = IF isPlaying THEN @ + 1 ELSE @],
                          fail)
              e3 == IF e4.threw THEN e4 ELSE handleMetronomeToggle(e4, TRUE)
          IN /\ Commit(e3) /\ lastOp' = UiOp("togglePlay", 1, e3)
             /\ isPlayingState' = IF e3.threw THEN isPlayingState ELSE TRUE
  /\ UNCHANGED <<bpmState, render, tunerVars, tapVars>>

changeBpmValue(delta) == Max(MinBPM, Min(MaxBPM, render.bpm + delta))

ChangeBpm(delta) ==
  /\ isPlaying => bpmCalls < MaxBpmCalls
  /\ HasFreshId(Engine)
  /\ NearSlider(changeBpmValue(delta))
  /\ LET newBpm == changeBpmValue(delta)
         e0 == setBPM(Engine, newBpm)
         e == [e0 EXCEPT !.bpmCalls = IF isPlaying THEN @ + 1 ELSE @]
     IN /\ Commit(e) /\ lastOp' = UiOp("changeBpm", delta, e)
        /\ bpmState' = newBpm
  /\ UNCHANGED <<isPlayingState, render, tunerVars, tapVars>>

HandleSliderChange(v) ==
  /\ isPlaying => bpmCalls < MaxBpmCalls
  /\ HasFreshId(Engine)
  /\ LET e0 == setBPM(Engine, v)
         e == [e0 EXCEPT !.bpmCalls = IF isPlaying THEN @ + 1 ELSE @]
     IN /\ Commit(e) /\ lastOp' = UiOp("slider", v, e)
        /\ bpmState' = v
  /\ UNCHANGED <<isPlayingState, render, tunerVars, tapVars>>

Render ==
  /\ render # [bpm |-> bpmState, isPlaying |-> isPlayingState]
  /\ render' = [bpm |-> bpmState, isPlaying |-> isPlayingState]
  /\ lastOp' = UiOp("render", 0, Engine)
  /\ UNCHANGED <<engineVars, bpmState, isPlayingState, tunerVars, tapVars>>

ControlsNext ==
  \/ TogglePlay(FALSE)
  \/ \E delta \in {-1, 1} : ChangeBpm(delta)
  \/ \E v \in SliderValues : HandleSliderChange(v)
  \/ Render
  \/ TimerFire(FALSE)
  \/ AdvanceToDue

ControlsSpec == Init /\ [][ControlsNext]_vars

\* ------------------------------------------------- Home: chord automation
\* Home renders between two events, so its handlers read the committed state;
\* the handlers of MetronomeControls keep reading their last render.
MaxChordBeat == 24                 \* ticks explored with a chord selected
ProgressionLengths == {3, 4}       \* lengths of the generated progressions
ChordSliderValues == {300}         \* slider values explored while chords advance

\* Home.generateProgressions: one progression replaces the displayed ones
generateProgressions(e, len) == [e EXCEPT !.progressions = <<len>>]

\* Home.handleChordClick on a displayed chord
handleChordClick(e, progressionIndex, chordIndex) ==
  LET e1 == [e EXCEPT !.selectedChord = [progressionIndex |-> progressionIndex,
                                          chordIndex |-> chordIndex]]
  IN IF chordIndex < progressionLength(e, progressionIndex) /\ e.isAutomationActive
     THEN [e1 EXCEPT !.autoChordIndex = chordIndex]
     ELSE e1

GenerateProgressions(len) ==
  /\ progressions = <<>>
  /\ LET e == generateProgressions(Engine, len)
     IN Commit(e) /\ lastOp' = UiOp("generateProgressions", len, e)
  /\ UNCHANGED <<uiVars, tunerVars, tapVars>>

HandleChordClick(chordIndex) ==
  /\ ~isAutomationActive
  /\ chordIndex < progressionLength(Engine, 0)
  /\ LET e == handleChordClick(Engine, 0, chordIndex)
     IN Commit(e) /\ lastOp' = UiOp("chordClick", chordIndex, e)
  /\ UNCHANGED <<uiVars, tunerVars, tapVars>>

ChordTimerFire == TimerFireBelow(MaxChordBeat, FALSE)

ChordNext ==
  \/ \E len \in ProgressionLengths : GenerateProgressions(len)
  \/ \E chordIndex \in 0..3 : HandleChordClick(chordIndex)
  \/ TogglePlay(FALSE)
  \/ \E v \in ChordSliderValues : HandleSliderChange(v)
  \/ Render
  \/ ChordTimerFire
  \/ AdvanceToDue

ChordSpec == Init /\ [][ChordNext]_vars

\* ------------------------------------------------------------------- Tuner
\* Frequencies are whole hundredths of a hertz.  Math.log2 is modelled by
\* comparing against Pow2Table, 2^(k/2400) for k = -121..121 scaled by
\* Pow2Scale, so cents are exact between -60 and 60 and reported as -61 or 61
\* beyond (the code only tests |cents| <= 50 and never shows such a value).

Pow2Table == <<
  48283, 48297, 48311, 48325, 48339, 48353, 48367, 48381, 48395,
  48409, 48423, 48437, 48450, 48464, 48478, 48492, 48507, 48521,
  48535, 48549, 48563, 48577, 48591, 48605, 48619, 48633, 48647,
  48661, 48675, 48689, 48703, 48717, 48731, 48745, 48759, 48773,
  48787, 48802, 48816, 48830, 48844, 48858, 48872, 48886, 48900,
  48914, 48929, 48943, 48957, 48971, 48985, 48999, 49013, 49028,
  49042, 49056, 49070, 49084, 49098, 49113, 49127, 49141, 49155,
  49169, 49184, 49198, 49212, 49226, 49240, 49255, 49269, 49283,
  49297, 49312, 49326, 49340, 49354, 49369, 49383, 49397, 49411,
  49426, 49440, 49454, 49469, 49483, 49497, 49511, 49526, 49540,
  49554, 49569, 49583, 49597, 49612, 49626, 49640, 49655, 49669,
  49683, 49698, 49712, 49726, 49741, 49755, 49769, 49784, 49798,
  49813, 49827, 49841, 49856, 49870, 49885, 49899, 49913, 49928,
  49942, 49957, 49971, 49986, 50000, 50014, 50029, 50043, 50058,
  50072, 50087, 50101, 50116, 50130, 50145, 50159, 50174, 50188,
  50203, 50217, 50232, 50246, 50261, 50275, 50290, 50304, 50319,
  50333, 50348, 50362, 50377, 50391, 50406, 50421, 50435, 50450,
  50464, 50479, 50493, 50508, 50523, 50537, 50552, 50566, 50581,
  50596, 50610, 50625, 50639, 50654, 50669, 50683, 50698, 50713,
  50727, 50742, 50757, 50771, 50786, 50801, 50815, 50830, 50845,
  50859, 50874, 50889, 50903, 50918, 50933, 50948, 50962, 50977,
  50992, 51006, 51021, 51036, 51051, 51065, 51080, 51095, 51110,
  51124, 51139, 51154, 51169, 51183, 51198, 51213, 51228, 51243,
  51257, 51272, 51287, 51302, 51317, 51332, 51346, 51361, 51376,
  51391, 51406, 51421, 51435, 51450, 51465, 51480, 51495, 51510,
  51525, 51539, 51554, 51569, 51584, 51599, 51614, 51629, 51644,
  51659, 51674, 51689, 51703, 51718, 51733, 51748, 51763, 51778 >>

Pow2(k) == Pow2Table[k + 2 * MaxCents + 2]

guitarStrings ==
  << [name |-> "E", freq |-> 8241],  [name |-> "A", freq |-> 11000],
     [name |-> "D", freq |-> 14683], [name |-> "G", freq |-> 19600],
     [name |-> "B", freq |-> 24694], [name |-> "E", freq |-> 32963] >>

Abs(x) == IF x < 0 THEN -x ELSE x

\* Math.round(1200 * Math.log2(num / den)): the c with
\* den * 2^((c - 1/2)/1200) <= num < den * 2^((c + 1/2)/1200)
CentsRound(num, den) ==
  IF num * 100 <= den * 96 THEN -MaxCents - 1        \* below 2^(-61/1200)
  ELSE IF num * 100 >= den * 104 THEN MaxCents + 1   \* above 2^(61/1200)
  ELSE IF num * Pow2Scale < den * Pow2(-2 * MaxCents - 1) THEN -MaxCents - 1
  ELSE IF num * Pow2Scale >= den * Pow2(2 * MaxCents + 1) THEN MaxCents + 1
  ELSE CHOOSE c \in -MaxCents..MaxCents :
         /\ den * Pow2(2 * c - 1) <= num * Pow2Scale
         /\ num * Pow2Scale < den * Pow2(2 * c + 1)

\* the ratio taken upside down
centsValue_Inverted(freq, ref) == CentsRound(ref, freq)

\* const centsValue = Math.round(1200 * Math.log2(freq / closest.freq))
centsValue(freq, ref) == CentsRound(freq, ref)

\* the scan for the string nearest in Hz: a later string replaces the choice
\* only when strictly nearer
closestString(freq) ==
  CHOOSE i \in 1..6 :
    /\ \A j \in 1..6 :
         Abs(freq - guitarStrings[i].freq) <= Abs(freq - guitarStrings[j].freq)
    /\ \A j \in 1..(i - 1) :
         Abs(freq - guitarStrings[j].freq) > Abs(freq - guitarStrings[i].freq)

Tuner ==
  [currentNote |-> currentNote, cents |-> cents, guitarTuned |-> guitarTuned,
   lastNoteRef |-> lastNoteRef, noteHoldAge |-> noteHoldAge,
   closest |-> closest, published |-> published,
   pitchHistory |-> pitchHistory, avgPitch |-> avgPitch]

\* a range test that lets every reading through
inRange_Always(c) == TRUE

\* Math.abs(centsValue) <= 50
inRange(c) == Abs(c) <= RangeCents

\* a map that marks the matched name and clears the flag of the others
markTuned_Exclusive(tuned, name) ==
  [j \in 1..6 |-> guitarStrings[j].name = name]

\* prev.map(str => str.name === closest.name ? { ...str, tuned: true } : str)
markTuned(tuned, name) ==
  [j \in 1..6 |-> IF guitarStrings[j].name = name THEN TRUE ELSE tuned[j]]

\* an update that tests the lock before it compares the names
updateTuningInfo_LockOnChange(t, freq) ==
  LET i == closestString(freq)
      name == guitarStrings[i].name
      c == centsValue(freq, guitarStrings[i].freq)
      t0 == [t EXCEPT !.closest = i, !.published = inRange(c)]
  IN IF inRange(c)
     THEN LET t1 == IF Abs(c) <= LockCents /\ t0.noteHoldAge >= LockMs
                    THEN [t0 EXCEPT !.guitarTuned = markTuned(@, name)]
                    ELSE t0
              t2 == IF t1.lastNoteRef = name THEN t1
                    ELSE [t1 EXCEPT !.lastNoteRef = name, !.noteHoldAge = 0]
          IN [t2 EXCEPT !.currentNote = name, !.cents = c]
     ELSE t0

\* Tuner.updateTuningInfo
updateTuningInfo(t, freq) ==
  LET i == closestString(freq)
      name == guitarStrings[i].name
      c == centsValue(freq, guitarStrings[i].freq)
      t0 == [t EXCEPT !.closest = i, !.published = inRange(c)]
  IN IF inRange(c)
     THEN LET t1 == IF t0.lastNoteRef = name
                    THEN IF Abs(c) <= LockCents /\ t0.noteHoldAge >= LockMs
                         THEN [t0 EXCEPT !.guitarTuned = markTuned(@, name)]
                         ELSE t0
                    ELSE [t0 EXCEPT !.lastNoteRef = name, !.noteHoldAge = 0]
          IN [t1 EXCEPT !.currentNote = name, !.cents = c]
     ELSE t0

TunerCommit(t) ==
  /\ currentNote' = t.currentNote
  /\ cents' = t.cents
  /\ guitarTuned' = t.guitarTuned
  /\ lastNoteRef' = t.lastNoteRef
  /\ noteHoldAge' = t.noteHoldAge
  /\ closest' = t.closest
  /\ published' = t.published
  /\ pitchHistory' = t.pitchHistory
  /\ avgPitch' = t.avgPitch

\* the frequency string.freq * 2^(half/2400), to the hundredth of a hertz
OffsetFreq(s, half) ==
  (guitarStrings[s].freq * Pow2(half) + Pow2Scale \div 2) \div Pow2Scale

\* offsets, in half cents, of the frequencies fed to updateTuningInfo
MaxHalfCents == 2 * RangeCents

\* updateTuningInfo applied once to every frequency within 50 cents of a string
CentsInit ==
  /\ MetronomeInit /\ TunerInit
  /\ \E s \in 1..6, h \in -MaxHalfCents..MaxHalfCents :
       tunerIn = [string |-> s, half |-> h, freq |-> OffsetFreq(s, h)]

UpdateTuningInfo ==
  /\ tunerIn.freq > 0
  /\ closest = 0
  /\ TunerCommit(updateTuningInfo(Tuner, tunerIn.freq))
  /\ UNCHANGED <<engineVars, uiVars, lastOp, tunerIn, frame, stretchName,
                 stretchAge, micVars, tapVars>>

CentsNext == UpdateTuningInfo

CentsSpec == CentsInit /\ [][CentsNext]_vars

\* ------------------------------------------------ Tuner: microphone session
\* startTuning runs up to each await in one step; the effect's cleanup may run
\* between two of them.  detectPitch runs once inside startTuning and then
\* once per requested animation frame.  An estimate is the pair findPitch
\* returns: pitch in hundredths of a hertz, clarity in hundredths.

UnsupportedMessage ==
  "Your browser doesn't support microphone access. Please use Chrome or Firefox."

\* a catch block that shows the default text whatever the error
errorMessage_Default(err) == "Microphone access denied or not available"

\* the message startTuning's catch block chooses for the error it caught
errorMessage(err) ==
  IF err.name = "NotAllowedError"
  THEN "Microphone access denied. Please click the microphone icon in your browser's address bar and allow access."
  ELSE IF err.name = "NotFoundError"
  THEN "No microphone found. Please connect a microphone and refresh the page."
  ELSE IF err.name = "NotSupportedError" THEN UnsupportedMessage
  ELSE IF err.name = "NotReadableError"
  THEN "Microphone is being used by another application. Please close other apps using the microphone."
  ELSE IF err.message # "" THEN err.message
  ELSE "Microphone access denied or not available"

\* detectedClarity > 0.8 && detectedPitch > 50 && detectedPitch < 2000
accepted(est) ==
  est.clarity > ClarityThreshold /\ est.pitch > MinPitch /\ est.pitch < MaxPitch

RECURSIVE Sum(_)
Sum(h) == IF h = <<>> THEN 0 ELSE Head(h) + Sum(Tail(h))

\* no smoothing: the newest estimate
Average_Newest(h) == h[Len(h)]

\* pitchHistory.reduce((sum, val) => sum + val, 0) / pitchHistory.length,
\* to the nearest hundredth of a hertz
Average(h) == (2 * Sum(h) + Len(h)) \div (2 * Len(h))

\* a cycle that keeps the history when no pitch is detected
detectPitch_KeepHistory(t, est) ==
  IF accepted(est)
  THEN LET h0 == Append(t.pitchHistory, est.pitch)
           h == IF Len(h0) > MaxHistoryLength THEN Tail(h0) ELSE h0
       IN updateTuningInfo([t EXCEPT !.pitchHistory = h, !.avgPitch = Average(h)],
                           Average(h))
  ELSE [t EXCEPT !.avgPitch = 0, !.closest = 0, !.published = FALSE,
                 !.currentNote = "", !.cents = 0]

\* detectPitch, up to its requestAnimationFrame call
detectPitch(t, est) ==
  IF accepted(est)
  THEN LET h0 == Append(t.pitchHistory, est.pitch)
           h == IF Len(h0) > MaxHistoryLength THEN Tail(h0) ELSE h0
       IN updateTuningInfo([t EXCEPT !.pitchHistory = h, !.avgPitch = Average(h)],
                           Average(h))
  ELSE [t EXCEPT !.pitchHistory = <<>>, !.avgPitch = 0,
                 !.closest = 0, !.published = FALSE,
                 !.currentNote = "", !.cents = 0]

\* the step of the tuner that produced the current state
TunerOp(name) == [Op(name, 0, Engine) EXCEPT !.repeat = FALSE]

\* one cycle: detectPitch on the estimate est, then the next frame is requested
Cycle(est) ==
  LET t == detectPitch(Tuner, est)
      inTune == accepted(est) /\ t.published /\ Abs(t.cents) <= LockCents
  IN /\ TunerCommit(t)
     /\ frame' = [pitch |-> est.pitch, clarity |-> est.clarity,
                  outcome |-> IF accepted(est) THEN "accepted" ELSE "rejected",
                  prev |-> frame.outcome,
                  matched |-> IF t.published THEN t.closest ELSE frame.matched]
     /\ stretchName' = IF inTune THEN t.currentNote ELSE ""
     /\ stretchAge' = IF inTune /\ stretchName = t.currentNote THEN stretchAge ELSE 0
     /\ animationFrameId' = TRUE
     /\ lastOp' = TunerOp("detectPitch")

\* the catch block of startTuning
Catch(err) ==
  /\ error' = errorMessage(err)
  /\ errorSets' = errorSets + 1
  /\ isListening' = FALSE
  /\ failure' = err.name
  /\ pc' = "failed"
  /\ lastOp' = TunerOp("catch")

\* from createMediaStreamSource to the first detectPitch() call
Setup(est) ==
  /\ isListening' = TRUE
  /\ pc' = "running"
  /\ Cycle(est)
  /\ UNCHANGED <<error, errorSets, failure>>

\* startTuning() called by the effect, up to its first await; api: the
\* mediaDevices API exists, perm: navigator.permissions exists
StartTuning(api, perm) ==
  /\ pc = "mounted"
  /\ IF ~api
     THEN /\ Catch([name |-> "Error", message |-> UnsupportedMessage])
          /\ UNCHANGED attempts
     ELSE /\ error' = ""
          /\ lastOp' = TunerOp("startTuning")
          /\ pc' = IF perm THEN "permissions" ELSE "getUserMedia"
          /\ attempts' = IF perm THEN attempts ELSE attempts + 1
          /\ UNCHANGED <<errorSets, isListening, failure>>
  /\ UNCHANGED <<engineVars, uiVars, tapVars, currentNote, cents,
                 guitarTuned, lastNoteRef, noteHoldAge, closest, published,
                 tunerIn, cycleVars, stream, audioContext, animationFrameId,
                 unmounted>>

\* permissions.query settles either way; getUserMedia is called
PermissionsSettled ==
  /\ pc = "permissions"
  /\ pc' = "getUserMedia"
  /\ attempts' = attempts + 1
  /\ lastOp' = TunerOp("getUserMedia")
  /\ UNCHANGED <<engineVars, uiVars, tapVars, currentNote, cents,
                 guitarTuned, lastNoteRef, noteHoldAge, closest, published,
                 tunerIn, cycleVars, stream, audioContext, animationFrameId,
                 isListening, error, errorSets, failure, unmounted>>

\* getUserMedia rejects with err
GetUserMediaRejected(err) ==
  /\ pc = "getUserMedia"
  /\ Catch(err)
  /\ UNCHANGED <<engineVars, uiVars, tapVars, currentNote, cents,
                 guitarTuned, lastNoteRef, noteHoldAge, closest, published,
                 tunerIn, cycleVars, stream, audioContext, animationFrameId,
                 attempts, unmounted>>

\* getUserMedia resolves; ctx: new AudioContext() throws, or the state of the
\* context it returns
GetUserMediaResolved(ctx, est) ==
  /\ pc = "getUserMedia"
  /\ stream' = "live"
  /\ CASE ctx = "throws" ->
            /\ Catch([name |-> "ReferenceError",
                      message |-> "AudioContext is not defined"])
            /\ UNCHANGED <<audioContext, animationFrameId, currentNote, cents,
                           guitarTuned, lastNoteRef, noteHoldAge, closest,
                           published, cycleVars>>
       [] ctx = "suspended" ->
            /\ audioContext' = "open"
            /\ pc' = "resume"
            /\ lastOp' = TunerOp("resume")
            /\ UNCHANGED <<animationFrameId, isListening, error, errorSets,
                           failure, currentNote, cents, guitarTuned,
                           lastNoteRef, noteHoldAge, closest, published,
                           cycleVars>>
       [] ctx = "running" ->
            /\ audioContext' = "open"
            /\ Setup(est)
  /\ UNCHANGED <<engineVars, uiVars, tapVars, tunerIn, attempts,
                 unmounted>>

\* audioContext.resume() settles: it resolves on an open context and rejects
\* on a closed one
ResumeSettled(est) ==
  /\ pc = "resume"
  /\ IF audioContext = "open"
     THEN Setup(est)
     ELSE /\ Catch([name |-> "InvalidStateError",
                    message |-> "Cannot resume a closed AudioContext."])
          /\ UNCHANGED <<animationFrameId, currentNote, cents, guitarTuned,
                         lastNoteRef, noteHoldAge, closest, published,
                         cycleVars>>
  /\ UNCHANGED <<engineVars, uiVars, tapVars, tunerIn, stream,
                 audioContext, attempts, unmounted>>

\* the animation frame callback
DetectPitch(est) ==
  /\ animationFrameId
  /\ Cycle(est)
  /\ UNCHANGED <<engineVars, uiVars, tapVars, tunerIn, pc, stream,
                 audioContext, isListening, error, errorSets, attempts,
                 failure, unmounted>>

\* the cleanup the effect returns
Cleanup ==
  /\ pc # "mounted"
  /\ ~unmounted
  /\ animationFrameId' = FALSE
  /\ audioContext' = IF audioContext = "open" THEN "closed" ELSE audioContext
  /\ stream' = IF stream = "live" THEN "stopped" ELSE stream
  /\ isListening' = FALSE
  /\ unmounted' = TRUE
  /\ lastOp' = TunerOp("cleanup")
  /\ UNCHANGED <<engineVars, uiVars, tapVars, currentNote, cents,
                 guitarTuned, lastNoteRef, noteHoldAge, closest, published,
                 tunerIn, cycleVars, pc, error, errorSets, attempts, failure>>

\* time passes between two cycles
TunerAdvance ==
  /\ pc = "running"
  /\ noteHoldAge < LockMs \/ (stretchName # "" /\ stretchAge < LockMs)
  /\ noteHoldAge' = Min(noteHoldAge + HoldStep, LockMs)
  /\ stretchAge' = IF stretchName = "" THEN 0
                   ELSE Min(stretchAge + HoldStep, LockMs)
  /\ lastOp' = TunerOp("wait")
  /\ UNCHANGED <<engineVars, uiVars, tapVars, currentNote, cents,
                 guitarTuned, lastNoteRef, closest, published, tunerIn,
                 pitchHistory, avgPitch, frame, stretchName, micVars>>

Estimate(p, c) == [pitch |-> p, clarity |-> c]

\* the rejections of getUserMedia
MicErrors ==
  { [name |-> "NotAllowedError", message |-> "Permission denied"],
    [name |-> "NotFoundError", message |-> "Requested device not found"],
    [name |-> "NotReadableError", message |-> "Could not start audio source"],
    [name |-> "NotSupportedError", message |-> ""],
    [name |-> "AbortError", message |-> ""] }

\* The session over every outcome of the acquisition, with one clear and
\* one unclear estimate per cycle.
MicEstimates == {Estimate(guitarStrings[2].freq, 95), Estimate(0, 0)}

MicNext ==
  \/ \E api \in BOOLEAN, perm \in BOOLEAN : StartTuning(api, perm)
  \/ PermissionsSettled
  \/ \E err \in MicErrors : GetUserMediaRejected(err)
  \/ \E ctx \in {"throws", "suspended", "running"}, est \in MicEstimates :
       GetUserMediaResolved(ctx, est)
  \/ \E est \in MicEstimates : ResumeSettled(est)
  \/ \E est \in MicEstimates : DetectPitch(est)
  \/ Cleanup
  \/ TunerAdvance

MicSpec == Init /\ [][MicNext]_vars

\* The running session over a low E in tune and 30 cents sharp, an A (the
\* average of an E and an A lies more than 50 cents from both) and an
\* unclear frame.
TunerEstimates ==
  { Estimate(guitarStrings[1].freq, 95), Estimate(OffsetFreq(1, 60), 95),
    Estimate(guitarStrings[2].freq, 95), Estimate(guitarStrings[1].freq, 50) }

TunerNext ==
  \/ StartTuning(TRUE, TRUE)
  \/ PermissionsSettled
  \/ \E est \in TunerEstimates : GetUserMediaResolved("running", est)
  \/ \E est \in TunerEstimates : DetectPitch(est)
  \/ TunerAdvance

TunerSpec == Init /\ [][TunerNext]_vars

\* The running session over estimates at, just inside and just outside the
\* limits of clarity and of pitch.
LimitEstimates ==
  { Estimate(p, c) :
      p \in {MinPitch - 1, MinPitch, MinPitch + 1, guitarStrings[2].freq,
             MaxPitch - 1, MaxPitch, MaxPitch + 1},
      c \in {ClarityThreshold - 1, ClarityThreshold, ClarityThreshold + 1} }

LimitNext ==
  \/ StartTuning(TRUE, TRUE)
  \/ PermissionsSettled
  \/ \E est \in LimitEstimates : GetUserMediaResolved("running", est)
  \/ \E est \in LimitEstimates : DetectPitch(est)

LimitSpec == Init /\ [][LimitNext]_vars

\* The running session over the two strings named E, in tune, and an unclear
\* frame.
StringEstimates ==
  { Estimate(guitarStrings[1].freq, 95), Estimate(guitarStrings[6].freq, 95),
    Estimate(guitarStrings[1].freq, 50) }

StringNext ==
  \/ StartTuning(TRUE, TRUE)
  \/ PermissionsSettled
  \/ \E est \in StringEstimates : GetUserMediaResolved("running", est)
  \/ \E est \in StringEstimates : DetectPitch(est)
  \/ TunerAdvance

StringSpec == Init /\ [][StringNext]_vars

\* ------------------------------------------- MetronomeControls: tap tempo
\* tapTimes holds, oldest first, the ms elapsed since each tap (Date.now()
\* minus the stored timestamp).  React commits the state a handler or a timer
\* callback set before the next event is dispatched, so handleTapTempo reads
\* the tapTimes of the latest update.

\* 60000 / 0 in JavaScript
Infinity == 2147483647

\* [...tapTimes, now].slice(-4)
newTapTimes(taps) ==
  LET all == Append(taps, 0)
  IN IF Len(all) > MaxTaps
     THEN SubSeq(all, Len(all) - MaxTaps + 1, Len(all))
     ELSE all

\* the intervals array: newTapTimes[i] - newTapTimes[i - 1]
intervals(taps) == [i \in 1..(Len(taps) - 1) |-> taps[i] - taps[i + 1]]

\* a tempo taken from the last interval alone
calculatedBpm_LastInterval(taps) ==
  LET last == taps[Len(taps) - 1] - taps[Len(taps)]
  IN IF last = 0 THEN Infinity
     ELSE (2 * MsPerMinute + last) \div (2 * last)

\* Math.round(60000 / averageInterval), averageInterval being the sum of the
\* intervals divided by their number
calculatedBpm(taps) ==
  LET iv == intervals(taps)
      total == Sum(iv)
  IN IF total = 0 THEN Infinity
     ELSE (2 * MsPerMinute * Len(iv) + total) \div (2 * total)

\* a test that forgets the upper limit
bpmReasonable_NoUpper(b) == b >= MinBPM

\* calculatedBpm >= 40 && calculatedBpm <= 300
bpmReasonable(b) == b >= MinBPM /\ b <= MaxBPM

\* prev.filter(time => (Date.now() - time) < 2000)
pruneTaps(taps) == SelectSeq(taps, LAMBDA age : age < TapClearMs)

\* the gaps between two taps that are explored: 171 ms, 500 ms, and 2000 ms
\* or more
TapGaps == {171, 500}

SinceLastTap == IF tapTimes = <<>> THEN -1 ELSE tapTimes[Len(tapTimes)]

HandleTapTempo ==
  /\ tapOp.count < MaxTapCount
  /\ tapTimes = <<>> \/ SinceLastTap \in TapGaps \/ SinceLastTap >= TapClearMs
  /\ isPlaying => bpmCalls < MaxBpmCalls
  /\ HasFreshId(Engine)
  /\ LET new == newTapTimes(tapTimes)
         calc == IF Len(new) > 1 THEN calculatedBpm(new) ELSE 0
         ok == Len(new) > 1 /\ bpmReasonable(calc)
         e0 == IF ok THEN setBPM(Engine, calc) ELSE Engine
         e == [e0 EXCEPT !.bpmCalls = IF ok /\ isPlaying THEN @ + 1 ELSE @]
     IN /\ tapTimes' = new
        /\ bpmState' = IF ok THEN calc ELSE bpmState
        /\ Commit(e)
        /\ lastOp' = [UiOp("tap", 0, e) EXCEPT !.repeat = FALSE]
        /\ tapOp' = [count |-> tapOp.count + 1,
                     taps |-> Len(new), calculated |-> calc, accepted |-> ok,
                     span |-> new[1],
                     gap |-> SinceLastTap]
        /\ pruneTimers' = Append(pruneTimers, TapClearMs)
  /\ UNCHANGED <<isPlayingState, render, tunerVars>>

\* the callback of the timer handleTapTempo armed
PruneFire ==
  /\ pruneTimers # <<>>
  /\ Head(pruneTimers) = 0
  /\ tapTimes' = pruneTaps(tapTimes)
  /\ pruneTimers' = Tail(pruneTimers)
  /\ lastOp' = [UiOp("prune", 0, Engine) EXCEPT !.repeat = FALSE]
  /\ UNCHANGED <<engineVars, uiVars, tunerVars, tapOp>>

\* Time passes by a gap, or up to the instant the tick timer is due.  A
\* pruning callback may run late (setTimeout promises no more than the
\* delay), but it has run before time passes again.
TapAdvance ==
  /\ timers # {} \/ pruneTimers # <<>>
  /\ \A i \in 1..Len(pruneTimers) : pruneTimers[i] > 0
  /\ \E d \in TapGaps \cup {t.remaining : t \in timers} :
       /\ d > 0
       /\ \A t \in timers : d <= t.remaining
       /\ LET e == [Engine EXCEPT
                      !.timers = {[t EXCEPT !.remaining = @ - d] : t \in timers},
                      !.sinceTick = Min(@ + d, MaxInterval)]
          IN Commit(e) /\ lastOp' = [UiOp("advance", 0, e) EXCEPT !.repeat = FALSE]
       /\ tapTimes' = [i \in 1..Len(tapTimes) |-> tapTimes[i] + d]
       /\ pruneTimers' = [i \in 1..Len(pruneTimers) |-> Max(pruneTimers[i] - d, 0)]
  /\ UNCHANGED <<uiVars, tunerVars, tapOp>>

TapTimerFire == TimerFire(FALSE) /\ beatCount' <= MaxTapBeat

\* the metronome is switched on or off before the first tap
TapTogglePlay == tapOp.count = 0 /\ TogglePlay(FALSE)

TapNext ==
  \/ TapTogglePlay
  \/ Render
  \/ HandleTapTempo
  \/ PruneFire
  \/ TapTimerFire
  \/ TapAdvance

TapSpec == Init /\ [][TapNext]_vars

\* ------------------------------------------------------------------ claims

\* C1: at most one single-shot tick timer is pending in every reachable state:
\* exactly one while isPlaying (the one timeoutId refers to) and none while
\* not playing, under every interleaving of start, stop, setBPM and firings.
C1_SingleTickTimer ==
  /\ Cardinality(timers) <= 1
  /\ isPlaying => Cardinality(timers) = 1 /\ (\A t \in timers : t.id = timeoutId)
  /\ ~isPlaying => timers = {}

C1_Witness ==
  /\ isPlaying /\ lastOp.op = "setBPM" /\ bpmCalls >= 2 /\ beatCount >= 1
  /\ Cardinality(timers) = 1

\* C2: once stop() has returned, no step fires a tick (beatCount, currentBeat
\* and what onBeat and the synthesizer last received stay as they are) until
\* start() is called again, whatever setBPM calls follow.
C2_NoTickAfterStop ==
  [][/\ lastOp'.op = "stop" => ~lastOp'.ticked /\ stopped'
     /\ (stopped /\ stopped') =>
          /\ ~lastOp'.ticked
          /\ beatCount' = beatCount /\ currentBeat' = currentBeat
          /\ lastTick' = lastTick]_vars

C2_Witness ==
  stopped /\ lastOp.op = "setBPM" /\ lastOp.arg = 300 /\ beatCount >= 2

\* C3: start() on an idle metronome fires the first tick before it returns:
\* that tick has beatCount 0 and currentBeat 0 and is a downbeat click, and
\* exactly one timer, due after 60000/bpm ms, is pending afterwards,
\* whatever beatCount the session before left.
C3_StartFiresBeatZero ==
  (lastOp.op = "start" /\ ~lastOp.prePlaying) =>
     /\ lastOp.ticked /\ isPlaying
     /\ beatCount = 0 /\ currentBeat = 0
     /\ lastTick = [beat |-> 0, count |-> 0, baseFreq |-> DownbeatFreq]
     /\ sinceTick = 0
     /\ timers = {[id |-> timeoutId, kind |-> "sched", remaining |-> MsPerMinute \div bpm]}

C3_Witness ==
  lastOp.op = "start" /\ ~lastOp.prePlaying /\ lastOp.preBeat >= 3 /\ beatCount = 0

\* C4: while the engine stays running, a step that fires a tick raises
\* beatCount by exactly 1, sets currentBeat to beatCount mod 4 and hands the
\* callbacks that beat and that count; every other step (setBPM included)
\* leaves them alone; ticks come only from start and from timer callbacks.
C4_TicksCountByOne ==
  [][/\ lastOp'.ticked => lastOp'.op \in {"start", "timer"}
     /\ (isPlaying /\ isPlaying') =>
          IF lastOp'.ticked
          THEN /\ beatCount' = beatCount + 1
               /\ currentBeat' = beatCount' % 4
               /\ lastTick'.count = beatCount'
               /\ lastTick'.beat = beatCount' % 4
          ELSE /\ beatCount' = beatCount /\ currentBeat' = currentBeat
               /\ lastTick' = lastTick]_vars

C4_Witness ==
  /\ lastOp.op = "timer" /\ lastOp.fired = "bpm" /\ lastOp.ticked
  /\ beatCount = 5 /\ currentBeat = 1 /\ lastTick.count = 5 /\ lastTick.beat = 1

\* C5: setBPM on a running engine changes bpm and the pending timer only:
\* isPlaying, beatCount, currentBeat and the callbacks' view are unchanged, no
\* tick fires in the call, and the one pending timer is due 60000/bpm ms
\* (the new bpm) after the call; when that timer fires, the tick continues
\* the count and the measure (beatCount + 1, the next beat of the measure).
C5_SetBPMFrame ==
  /\ [][(lastOp'.op = "setBPM" /\ isPlaying) =>
          /\ isPlaying' /\ ~lastOp'.ticked
          /\ beatCount' = beatCount /\ currentBeat' = currentBeat
          /\ lastTick' = lastTick /\ isGreenDownbeat' = isGreenDownbeat
          /\ sinceTick' = sinceTick
          /\ \E t \in timers' :
               /\ timers' = {t}
               /\ t.id = timeoutId'
               /\ t.remaining = MsPerMinute \div bpm']_vars
  /\ [][(lastOp'.op = "timer" /\ lastOp'.fired = "bpm") =>
          /\ lastOp'.ticked
          /\ beatCount' = beatCount + 1
          /\ currentBeat' = (currentBeat + 1) % 4
          /\ lastTick'.beat = currentBeat']_vars

C5_Witness ==
  /\ lastOp.op = "setBPM" /\ lastOp.prePlaying /\ lastOp.arg = 300 /\ bpm = 300
  /\ beatCount = 2 /\ sinceTick > 0
  /\ \E t \in timers : t.remaining = 200

C6_OnlyEngineWritesBeatCount ==
  [][beatCount' # beatCount =>
       /\ lastOp'.ticked
       /\ lastOp'.fired # "none" \/ ~isPlaying]_vars

\* C7: a tick whose click synthesis throws still counts as fired and leaves
\* the timer for the next tick armed while the metronome is running.
C7_SchedulingSurvivesSynthFailure ==
  (lastOp.threw /\ lastOp.op \in {"start", "timer"}) =>
     /\ lastOp.ticked /\ isPlaying
     /\ Cardinality(timers) = 1

\* C8: a setBPM call repeating the value of the call just before it on a
\* running engine changes nothing but the timer handle (same bpm, same count,
\* one timer with the same delay); after such calls a tick still fires unless
\* the engine is stopped; a tick is never early, and a tick that follows a
\* tick with no setBPM in between comes exactly 60000/bpm ms after it.
C8_RepeatedSetBPM ==
  /\ [][(lastOp'.op = "setBPM" /\ lastOp'.repeat /\ isPlaying) =>
           /\ isPlaying' /\ bpm' = bpm
           /\ beatCount' = beatCount /\ currentBeat' = currentBeat
           /\ Cardinality(timers') = 1
           /\ {t.remaining : t \in timers'} = {t.remaining : t \in timers}]_vars
  /\ [][(lastOp'.op = "timer" /\ lastOp'.ticked) =>
           /\ sinceTick >= MsPerMinute \div bpm
           /\ bpmCalls = 0 => sinceTick = MsPerMinute \div bpm]_vars
  /\ (isPlaying /\ lastOp.op = "setBPM" /\ beatCount < MaxLiveBeat)
        ~> (lastOp.ticked \/ ~isPlaying)

C8_Witness ==
  /\ lastOp.op = "setBPM" /\ lastOp.repeat /\ lastOp.prePlaying /\ isPlaying
  /\ bpmCalls >= 2 /\ beatCount >= 1 /\ sinceTick > 0

\* C10: for every reference string R and every offset d = half/2 cents with
\* |d| <= 50, updateTuningInfo fed R.freq * 2^(d/1200) matches R (the string
\* nearest in Hz), publishes R's name and publishes cents within 1 of
\* round(d), and exactly d when d is a whole number of cents.
C10_MatchAndCents ==
  (tunerIn.freq > 0 /\ closest # 0) =>
     /\ closest = tunerIn.string
     /\ published
     /\ currentNote = guitarStrings[tunerIn.string].name
     /\ cents - ((tunerIn.half + 1) \div 2) \in -1..1
     /\ tunerIn.half % 2 = 0 => 2 * cents = tunerIn.half

C10_Witness ==
  /\ tunerIn.string = 6 /\ tunerIn.half = -99 /\ closest = 6
  /\ published /\ cents \in {-50, -49} /\ currentNote = "E"
\* C11: a tuned flag turns true only in a cycle that ends a stretch of at
\* least 2000 ms in which every cycle published a reading of that name with
\* |cents| <= 5 (a reading above 5 cents, another name, an off-chart
\* frequency or a no-pitch frame starts the stretch anew).
C11_LockEndsInTuneStretch ==
  [][\A i \in 1..6 :
       (~guitarTuned[i] /\ guitarTuned'[i]) =>
          /\ stretchName' = guitarStrings[i].name
          /\ stretchAge' >= LockMs]_vars

C13_TunedIsOneWay ==
  [][\A i \in 1..6 : guitarTuned[i] => guitarTuned'[i]]_vars

C13_Witness ==
  /\ guitarTuned[1] /\ guitarTuned[2] /\ frame.outcome = "rejected"
  /\ frame.prev = "accepted" /\ lastNoteRef = "A"

\* C14: right after a rejected estimate the history is empty and the display
\* shows no note (currentNote "", cents 0); the first accepted estimate after
\* a rejected one is smoothed to itself alone.
C14_GapClearsHistory ==
  /\ frame.outcome = "rejected" =>
        pitchHistory = <<>> /\ currentNote = "" /\ cents = 0
  /\ (frame.outcome = "accepted" /\ frame.prev = "rejected") =>
        pitchHistory = <<frame.pitch>> /\ avgPitch = frame.pitch

C14_Witness ==
  /\ frame.outcome = "accepted" /\ frame.prev = "rejected"
  /\ guitarTuned[1] /\ avgPitch = 11000 /\ currentNote = "A"

\* C15: an estimate is rejected exactly when its clarity is below 0.8 or its
\* pitch is below 50 Hz or above 2000 Hz; clarity 0.8 and the pitches 50 Hz
\* and 2000 Hz are accepted.
C15_RejectedIffOutsideLimits ==
  frame.outcome # "none" =>
     (frame.outcome = "rejected" <=>
        (frame.clarity < 80 \/ frame.pitch < 5000 \/ frame.pitch > 200000))
\* C16: once the effect's cleanup has run, the stream's tracks are stopped,
\* the AudioContext is closed and no detectPitch cycle is requested, also
\* when the cleanup ran while getUserMedia was pending or after a failure
\* thrown once the stream was acquired.
C16_CleanupReleasesAll ==
  unmounted =>
     /\ stream # "live"
     /\ audioContext # "open"
     /\ ~animationFrameId

\* C17: when the acquisition fails (API absent, permission denied, no device,
\* device busy) no cycle ever runs, isListening is false, setError was
\* called once, with the message of that failure, and getUserMedia was
\* called at most once (not at all when the API is absent).
C17_AcquisitionFailureIsTerminal ==
  /\ attempts <= 1
  /\ failure \in {"Error", "NotAllowedError", "NotFoundError", "NotReadableError"} =>
       /\ pc = "failed" /\ stream = "none"
       /\ frame.outcome = "none" /\ ~animationFrameId
       /\ ~isListening
       /\ errorSets = 1
       /\ failure = "Error" => attempts = 0
       /\ error =
            CASE failure = "Error" ->
                   "Your browser doesn't support microphone access. Please use Chrome or Firefox."
              [] failure = "NotAllowedError" ->
                   "Microphone access denied. Please click the microphone icon in your browser's address bar and allow access."
              [] failure = "NotFoundError" ->
                   "No microphone found. Please connect a microphone and refresh the page."
              [] failure = "NotReadableError" ->
                   "Microphone is being used by another application. Please close other apps using the microphone."

C17_Witness ==
  /\ failure = "NotReadableError" /\ pc = "failed" /\ attempts = 1
  /\ errorSets = 1 /\ unmounted
\* C18: with two or more taps in the history handleTapTempo computes
\* round(60000 / mean interval), the mean taken over all intervals of the
\* history (its span divided by their number); an estimate within [40,300]
\* becomes the bpm of the display and of the engine, and four taps 500 ms
\* apart make both 120.
C18_TapTempoMean ==
  /\ (tapOp.taps >= 2 /\ tapOp.span > 0) =>
        /\ (2 * tapOp.calculated - 1) * tapOp.span <= 2 * 60000 * (tapOp.taps - 1)
        /\ 2 * 60000 * (tapOp.taps - 1) < (2 * tapOp.calculated + 1) * tapOp.span
  /\ (lastOp.op = "tap" /\ tapOp.taps >= 2
        /\ tapOp.calculated >= 40 /\ tapOp.calculated <= 300) =>
        bpmState = tapOp.calculated /\ bpm = tapOp.calculated
  /\ (lastOp.op = "tap" /\ tapTimes = <<1500, 1000, 500, 0>>) =>
        tapOp.calculated = 120 /\ bpmState = 120 /\ bpm = 120

C18_Witness ==
  /\ lastOp.op = "tap" /\ tapTimes = <<1500, 1000, 500, 0>>
  /\ bpmState = 120 /\ bpm = 120 /\ isPlaying
  /\ \E t \in timers : t.kind = "bpm" /\ t.remaining = 500

\* C19: a tap whose computed BPM is below 40 or above 300 (taps 171 ms apart
\* give 351) yields no estimate: the displayed bpm, the engine's bpm and its
\* pending timer are unchanged, and the tap is appended to the history.
C19_OutOfRangeTapIgnored ==
  [][(/\ tapOp'.count # tapOp.count /\ tapOp'.taps >= 2
      /\ (tapOp'.calculated < 40 \/ tapOp'.calculated > 300)) =>
        /\ ~tapOp'.accepted
        /\ bpmState' = bpmState /\ bpm' = bpm
        /\ timers' = timers /\ timeoutId' = timeoutId
        /\ Len(tapTimes') = (IF Len(tapTimes) < 4 THEN Len(tapTimes) + 1 ELSE 4)
        /\ tapTimes'[Len(tapTimes')] = 0]_vars

C19_Witness ==
  /\ lastOp.op = "tap" /\ tapOp.taps = 2 /\ tapOp.gap = 171
  /\ tapOp.calculated = 351 /\ ~tapOp.accepted
  /\ isPlaying /\ bpm = 120 /\ bpmState = 120 /\ tapTimes = <<171, 0>>
  /\ \E t \in timers : t.remaining > 0

\* C20: a tap that comes 2000 ms or more after the tap before it starts a
\* fresh sequence: it is alone in the history and yields no estimate, also
\* when it arrives before the pruning callback has run.
C20_TapAfterGapIsFresh ==
  tapOp.gap >= 2000 =>
     /\ tapOp.taps = 1
     /\ tapOp.calculated = 0
     /\ ~tapOp.accepted

\* C21: while the metronome runs with the automation active and a chord
\* selected, a tick moves the selected chord index on by one, modulo the length
\* of its progression, when its beatCount is a positive multiple of 8 and
\* leaves the selection alone otherwise; a step that is neither a tick, a
\* start nor a chord click leaves it alone; a start selects index 0 of the
\* same progression.
C21_ChordAdvancesEveryEight ==
  [][/\ (lastOp'.ticked /\ isAutomationActive /\ selectedChord # NoChord)
        => selectedChord' =
             [selectedChord EXCEPT !.chordIndex =
                IF beatCount' > 0 /\ beatCount' % 8 = 0
                THEN (@ + 1) % progressions[selectedChord.progressionIndex + 1]
                ELSE @]
     /\ (lastOp'.op = "togglePlay" /\ lastOp'.arg = 1 /\ selectedChord # NoChord)
        => selectedChord' = [selectedChord EXCEPT !.chordIndex = 0]
     /\ (~lastOp'.ticked /\ lastOp'.op \notin {"togglePlay", "chordClick"})
        => selectedChord' = selectedChord]_vars

\* the third advance of a progression of three chords wraps to its first chord
C21_Witness ==
  /\ isPlaying /\ isAutomationActive /\ lastOp.ticked
  /\ beatCount = 24
  /\ progressions = <<3>>
  /\ selectedChord = [progressionIndex |-> 0, chordIndex |-> 0]

\* C22: every start leaves the downbeat colour flag false, a timer tick flips
\* it exactly when its beatCount is a positive multiple of 8, and after the
\* tick with beatCount n the flag is true exactly when floor(n/8) is odd,
\* whatever setBPM calls happened between the ticks.
C22_ColourFlipsEveryEight ==
  [][/\ (lastOp'.op = "togglePlay" /\ lastOp'.arg = 1) => ~isGreenDownbeat'
     /\ (lastOp'.op = "timer" /\ lastOp'.ticked)
        => ((isGreenDownbeat' # isGreenDownbeat)
              <=> (beatCount' > 0 /\ beatCount' % 8 = 0))
     /\ lastOp'.ticked
        => (isGreenDownbeat' <=> (beatCount' \div 8) % 2 = 1)]_vars

\* the tick with beatCount 16, fired by the timer a setBPM call armed, has
\* flipped the flag back to false
C22_Witness ==
  /\ isPlaying /\ lastOp.ticked /\ lastOp.fired = "bpm"
  /\ beatCount = 16
  /\ ~isGreenDownbeat

\* C23: an update that publishes a reading of another string than the reading
\* published before it, the low E after the high E included, restarts the hold
\* timer and locks no string.
C23_StringChangeRestartsHold ==
  [][(/\ lastOp'.op = "detectPitch" /\ published'
      /\ frame.matched # 0 /\ frame'.matched # frame.matched)
     => (noteHoldAge' = 0 /\ guitarTuned' = guitarTuned)]_vars

\* C24: an update changes the tuned flag of no string but the one it matched.
C24_LockOnlyMatchedString ==
  [][lastOp'.op = "detectPitch"
     => \A j \in 1..6 : j # closest' => guitarTuned'[j] = guitarTuned[j]]_vars

\* C25: an update that publishes a reading whose name differs from the name
\* matched before (the first reading of a session included) starts the hold
\* at that instant and changes no tuned flag, whatever its cents, and the
\* display shows its name and its cents.
C25_NameChangeStartsHold ==
  [][(/\ lastOp'.op = "detectPitch" /\ published'
      /\ guitarStrings[closest'].name # lastNoteRef)
     => /\ noteHoldAge' = 0
        /\ lastNoteRef' = guitarStrings[closest'].name
        /\ guitarTuned' = guitarTuned
        /\ currentNote' = guitarStrings[closest'].name
        /\ cents' = CentsRound(avgPitch', guitarStrings[closest'].freq)]_vars

\* after the E strings locked, an A within 5 cents has just been matched: the
\* hold has restarted and A is not locked
C25_Witness ==
  /\ lastOp.op = "detectPitch" /\ published
  /\ guitarTuned[1] /\ ~guitarTuned[2]
  /\ currentNote = "A" /\ lastNoteRef = "A" /\ Abs(cents) <= LockCents
  /\ noteHoldAge = 0

\* C26: the pitch history never holds more than 5 estimates; an accepted
\* estimate is appended and, beyond 5, the oldest entry is dropped, and the
\* smoothed frequency is then the arithmetic mean of the history (to the
\* hundredth of a hertz); a rejected estimate empties the history, so the
\* history is the accepted estimates since the last rejection, at most the 5
\* most recent.
C26_HistoryIsLastFiveAccepted ==
  [][lastOp'.op = "detectPitch"
     => /\ Len(pitchHistory') <= 5
        /\ frame'.outcome = "rejected" => pitchHistory' = <<>>
        /\ frame'.outcome = "accepted"
           => LET h0 == Append(pitchHistory, frame'.pitch)
                  n == Len(pitchHistory')
              IN /\ pitchHistory' = IF Len(h0) > 5 THEN SubSeq(h0, 2, 6) ELSE h0
                 /\ 2 * Abs(avgPitch' * n - Sum(pitchHistory')) <= n]_vars

\* a full history of different estimates whose mean is none of them
C26_Witness ==
  /\ lastOp.op = "detectPitch" /\ frame.outcome = "accepted"
  /\ Len(pitchHistory) = 5
  /\ pitchHistory[1] # pitchHistory[5]
  /\ \A k \in 1..5 : avgPitch # pitchHistory[k]

\* C27: the tap history never holds more than 4 taps; a tap appends itself and
\* drops only what exceeds the 4 most recent; a pruning callback that runs
\* while the newest tap is less than 2000 ms old (the sequence is active)
\* drops nothing.
C27_TapsDroppedByCapOrInactivity ==
  [][/\ Len(tapTimes') <= 4
     /\ lastOp'.op = "tap"
        => LET all == Append(tapTimes, 0)
           IN tapTimes' = IF Len(all) > 4 THEN SubSeq(all, Len(all) - 3, Len(all))
                          ELSE all
     /\ (/\ lastOp'.op = "prune" /\ tapTimes # <<>>
         /\ tapTimes[Len(tapTimes)] < 2000)
        => tapTimes' = tapTimes]_vars

\* C28: a tick is synthesized with the downbeat frequency exactly when its
\* currentBeat is 0, which is exactly when its beatCount (0 at the tick of
\* start, one more at every tick) is a multiple of 4, whatever setBPM calls
\* came between the ticks; the engine's currentBeat is the beat of that tick.
C28_DownbeatTimbre ==
  /\ lastTick # NoTick
     => /\ lastTick.baseFreq \in {1780, 1600}
        /\ lastTick.baseFreq = 1780 <=> lastTick.beat = 0
        /\ lastTick.beat = 0 <=> lastTick.count % 4 = 0
  /\ lastOp.ticked => currentBeat = lastTick.beat

\* the fifth tick, fired by the timer a setBPM call armed, is a downbeat
C28_Witness ==
  /\ lastOp.ticked /\ lastOp.fired = "bpm"
  /\ lastTick.count = 4
  /\ lastTick.baseFreq = 1780

\* C29: start() on a running metronome fires no tick, leaves beatCount,
\* currentBeat, bpm and isPlaying as they are and leaves the pending timer the
\* only one.
C29_StartWhileRunningIsNoOp ==
  [][(lastOp'.op = "start" /\ isPlaying)
     => /\ ~lastOp'.ticked
        /\ UNCHANGED <<isPlaying, beatCount, currentBeat, bpm, timeoutId, timers,
                       lastTick>>]_vars

\* start() has been called between the third tick and the next
C29_Witness ==
  /\ lastOp.op = "start" /\ lastOp.prePlaying
  /\ isPlaying /\ beatCount = 2
  /\ Cardinality(timers) = 1

\* C30: after every handler of MetronomeControls the displayed bpm is the
\* engine's bpm and lies in 40..300, and the displayed play state is the
\* engine's isPlaying, also when handlers ran against a stale render.
C30_DisplayMatchesEngine ==
  /\ bpmState = bpm
  /\ bpm >= 40 /\ bpm <= 300
  /\ isPlayingState = isPlaying
====
